---- MODULE Spec2Model ----
(***************************************************************************)
(* Model of fastapi_002.py: the PersonaManager in-memory CRUD store and    *)
(* the five endpoints that call it.                                        *)
(*                                                                         *)
(* Spec      one request at a time: every endpoint call is one action.     *)
(* SpecConc  several crear_persona requests run in threads; every access   *)
(*           to the shared manager is a step of its own.                   *)
(*                                                                         *)
(* Optional[T] values are sequences: None is <<>>, a value v is <<v>>.     *)
(* The seed strings are written without their accents.                     *)
(***************************************************************************)
EXTENDS Integers, Sequences, FiniteSets, TLC

VARIABLES
    personas,   \* PersonaManager.personas: key -> Persona
    orden,      \* insertion order of the keys of the dict personas
    counter,    \* PersonaManager.counter
    last,       \* the last endpoint call: operation, arguments, outcome
    issued,     \* history: seed ids and every id a create returned
    everKeys,   \* history: every key that was ever in personas
    deleted,    \* history: ids of successful deletes
    nCreates,   \* history: number of successful creates
    nDeletes,   \* history: number of successful deletes
    created,    \* history: id -> record as created, until updated or deleted
    pc,         \* SpecConc: thread -> position inside agregar_persona
    args,       \* SpecConc: thread -> arguments of its running call
    nueva,      \* SpecConc: thread -> local nueva_persona
    key,        \* SpecConc: thread -> counter as read for the dict store
    tmp,        \* SpecConc: thread -> counter as read by counter += 1
    rets,       \* SpecConc history: records returned, in order of return
    overlap     \* SpecConc history: a call began while another was running

storeVars == <<personas, orden, counter>>
histVars == <<last, issued, everKeys, deleted, nCreates, nDeletes, created>>
thrVars == <<pc, args, nueva, key, tmp, rets, overlap>>
vars == <<personas, orden, counter, last, issued, everKeys, deleted,
          nCreates, nDeletes, created, pc, args, nueva, key, tmp, rets, overlap>>

----------------------------------------------------------------------------
\* Bounds of the model.

MaxCreates == 2
NThreads == 2

----------------------------------------------------------------------------
\* Values.

None == <<>>
Some(v) == <<v>>
Opt(S) == {None} \cup {Some(v) : v \in S}

Names == {"Eva"}
Ages == {0}
Nats == {"Chilena"}

Max(S) == CHOOSE m \in S : \A x \in S : x <= m

Persona(id, nombre, edad, nacionalidad) ==
    [id |-> id, nombre |-> nombre, edad |-> edad, nacionalidad |-> nacionalidad]

SeedPersonas ==
    (1 :> Persona(1, "Juan", 30, Some("Espanola"))) @@
    (2 :> Persona(2, "Maria", 25, Some("Argentina"))) @@
    (3 :> Persona(3, "Luis", 40, Some("Mexicana"))) @@
    (4 :> Persona(4, "Ana", 35, Some("Colombiana")))

SeedIds == DOMAIN SeedPersonas

InitCounterLen(p) == Cardinality(DOMAIN p)

InitCounter(p) == Max(DOMAIN p) + 1

\* Ids the requests address: a seed, every id the creates can issue and one
\* id that is never issued.
OpIds == {2} \cup ((Max(SeedIds) + 1) .. (Max(SeedIds) + MaxCreates + 1))

\* dict[k] = v: a new key goes to the end of the insertion order.
DictSet(p, k, v) == [x \in DOMAIN p \cup {k} |-> IF x = k THEN v ELSE p[x]]
OrdenSet(p, o, k) == IF k \in DOMAIN p THEN o ELSE Append(o, k)

\* del dict[k]
DictDel(p, k) == [x \in DOMAIN p \ {k} |-> p[x]]
OrdenDel(o, k) == SelectSeq(o, LAMBDA x : x # k)

Outcome(p, o, c, status, ret) ==
    [personas |-> p, orden |-> o, counter |-> c, status |-> status, ret |-> ret]

----------------------------------------------------------------------------
\* PersonaManager, one call at a time. Each operation maps the store
\* (personas, orden, counter) and its arguments to the store after the call,
\* the status ("ok", or "NotFound" for HTTPException 404) and the value
\* returned.

agregar_persona_len(p, o, c, nombre, edad, nacionalidad) ==
    LET id == Cardinality(DOMAIN p) + 1
        nueva_persona == Persona(id, nombre, edad, nacionalidad)
    IN  Outcome(DictSet(p, id, nueva_persona), OrdenSet(p, o, id), c + 1,
                "ok", nueva_persona)

agregar_persona_noinc(p, o, c, nombre, edad, nacionalidad) ==
    LET nueva_persona == Persona(c, nombre, edad, nacionalidad)
    IN  Outcome(DictSet(p, c, nueva_persona), OrdenSet(p, o, c), c,
                "ok", nueva_persona)

agregar_persona_incfirst(p, o, c, nombre, edad, nacionalidad) ==
    LET nueva_persona == Persona(c, nombre, edad, nacionalidad)
    IN  Outcome(DictSet(p, c + 1, nueva_persona), OrdenSet(p, o, c + 1), c + 1,
                "ok", nueva_persona)

agregar_persona_nonat(p, o, c, nombre, edad, nacionalidad) ==
    LET nueva_persona == Persona(c, nombre, edad, None)
    IN  Outcome(DictSet(p, c, nueva_persona), OrdenSet(p, o, c), c + 1,
                "ok", nueva_persona)

agregar_persona(p, o, c, nombre, edad, nacionalidad) ==
    LET nueva_persona == Persona(c, nombre, edad, nacionalidad)
    IN  Outcome(DictSet(p, c, nueva_persona), OrdenSet(p, o, c), c + 1,
                "ok", nueva_persona)

obtener_persona(p, o, c, id) ==
    IF id \notin DOMAIN p
    THEN Outcome(p, o, c, "NotFound", None)
    ELSE Outcome(p, o, c, "ok", p[id])

\* A bug that tests the arguments for truth instead of "is not None":
\* "" and 0 count as not supplied.
actualizar_persona_truthy(p, o, c, id, nombre, edad, nacionalidad) ==
    IF id \notin DOMAIN p
    THEN Outcome(p, o, c, "NotFound", None)
    ELSE LET persona == p[id]
             p1 == IF nombre # None /\ nombre[1] # ""
                   THEN [persona EXCEPT !.nombre = nombre[1]] ELSE persona
             p2 == IF edad # None /\ edad[1] # 0
                   THEN [p1 EXCEPT !.edad = edad[1]] ELSE p1
             p3 == IF nacionalidad # None /\ nacionalidad[1] # ""
                   THEN [p2 EXCEPT !.nacionalidad = nacionalidad] ELSE p2
         IN  Outcome(DictSet(p, id, p3), o, c, "ok", p3)

\* A bug that assigns nacionalidad without the test.
actualizar_persona_assign(p, o, c, id, nombre, edad, nacionalidad) ==
    IF id \notin DOMAIN p
    THEN Outcome(p, o, c, "NotFound", None)
    ELSE LET persona == p[id]
             p1 == IF nombre # None
                   THEN [persona EXCEPT !.nombre = nombre[1]] ELSE persona
             p2 == IF edad # None
                   THEN [p1 EXCEPT !.edad = edad[1]] ELSE p1
             p3 == [p2 EXCEPT !.nacionalidad = nacionalidad]
         IN  Outcome(DictSet(p, id, p3), o, c, "ok", p3)

\* persona is the object the dict holds: the assignments change it in place.
actualizar_persona(p, o, c, id, nombre, edad, nacionalidad) ==
    IF id \notin DOMAIN p
    THEN Outcome(p, o, c, "NotFound", None)
    ELSE LET persona == p[id]
             p1 == IF nombre # None
                   THEN [persona EXCEPT !.nombre = nombre[1]] ELSE persona
             p2 == IF edad # None
                   THEN [p1 EXCEPT !.edad = edad[1]] ELSE p1
             p3 == IF nacionalidad # None
                   THEN [p2 EXCEPT !.nacionalidad = nacionalidad] ELSE p2
         IN  Outcome(DictSet(p, id, p3), o, c, "ok", p3)

\* A bug that sets the counter again from the keys left after the delete.
eliminar_persona_recount(p, o, c, id) ==
    IF id \notin DOMAIN p
    THEN Outcome(p, o, c, "NotFound", None)
    ELSE LET q == DictDel(p, id)
         IN  Outcome(q, OrdenDel(o, id),
                     IF DOMAIN q = {} THEN 1 ELSE Max(DOMAIN q) + 1,
                     "ok", id)

\* A bug that deletes with dict.pop(id, None): a missing id is no error.
eliminar_persona_pop(p, o, c, id) ==
    Outcome(DictDel(p, id), OrdenDel(o, id), c, "ok", id)

\* The value returned is the message, which names the id.
eliminar_persona(p, o, c, id) ==
    IF id \notin DOMAIN p
    THEN Outcome(p, o, c, "NotFound", None)
    ELSE Outcome(DictDel(p, id), OrdenDel(o, id), c, "ok", id)

listar_personas(p, o, c) ==
    Outcome(p, o, c, "ok", [i \in 1 .. Len(o) |-> p[o[i]]])

----------------------------------------------------------------------------
\* The state after PersonaManager() and before any request.

Call(op, id, a, r) ==
    [op |-> op, id |-> id, args |-> a, status |-> r.status, ret |-> r.ret]

Init ==
    /\ personas = SeedPersonas
    /\ orden = <<1, 2, 3, 4>>
    /\ counter = InitCounter(SeedPersonas)
    /\ last = [op |-> "init", id |-> 0, args |-> <<>>, status |-> "ok", ret |-> None]
    /\ issued = SeedIds
    /\ everKeys = SeedIds
    /\ deleted = {}
    /\ nCreates = 0
    /\ nDeletes = 0
    /\ created = <<>>
    /\ pc = [t \in 1 .. NThreads |-> "idle"]
    /\ args = [t \in 1 .. NThreads |-> <<>>]
    /\ nueva = [t \in 1 .. NThreads |-> None]
    /\ key = [t \in 1 .. NThreads |-> 0]
    /\ tmp = [t \in 1 .. NThreads |-> 0]
    /\ rets = <<>>
    /\ overlap = FALSE

Store(r) ==
    /\ personas' = r.personas
    /\ orden' = r.orden
    /\ counter' = r.counter
    /\ everKeys' = everKeys \cup DOMAIN r.personas

Forget(f, id) == [x \in DOMAIN f \ {id} |-> f[x]]

----------------------------------------------------------------------------
\* The endpoints, one request at a time.

\* POST /personas/
CrearPersona(nombre, edad, nacionalidad) ==
    /\ nCreates < MaxCreates
    /\ LET r == agregar_persona(personas, orden, counter, nombre, edad, nacionalidad)
       IN  /\ Store(r)
           /\ last' = Call("create", 0, <<nombre, edad, nacionalidad>>, r)
           /\ issued' = issued \cup {r.ret.id}
           /\ nCreates' = nCreates + 1
           /\ created' = DictSet(created, r.ret.id,
                                 [id |-> r.ret.id, nombre |-> nombre, edad |-> edad,
                                  nacionalidad |-> nacionalidad])
    /\ UNCHANGED <<deleted, nDeletes>>
    /\ UNCHANGED thrVars

\* GET /personas/{id}
LeerPersona(id) ==
    /\ LET r == obtener_persona(personas, orden, counter, id)
       IN  /\ Store(r)
           /\ last' = Call("get", id, <<>>, r)
    /\ UNCHANGED <<issued, deleted, nCreates, nDeletes, created>>
    /\ UNCHANGED thrVars

\* PUT /personas/{id}
ActualizarPersona(id, nombre, edad, nacionalidad) ==
    /\ LET r == actualizar_persona(personas, orden, counter, id, nombre, edad, nacionalidad)
       IN  /\ Store(r)
           /\ last' = Call("update", id, <<nombre, edad, nacionalidad>>, r)
    /\ created' = Forget(created, id)
    /\ UNCHANGED <<issued, deleted, nCreates, nDeletes>>
    /\ UNCHANGED thrVars

\* DELETE /personas/{id}
EliminarPersona(id) ==
    /\ LET r == eliminar_persona(personas, orden, counter, id)
       IN  /\ Store(r)
           /\ last' = Call("delete", id, <<>>, r)
           /\ deleted' = IF r.status = "ok" THEN deleted \cup {id} ELSE deleted
           /\ nDeletes' = IF r.status = "ok" THEN nDeletes + 1 ELSE nDeletes
    /\ created' = Forget(created, id)
    /\ UNCHANGED <<issued, nCreates>>
    /\ UNCHANGED thrVars

\* GET /personas/
ListarPersonas ==
    /\ LET r == listar_personas(personas, orden, counter)
       IN  /\ Store(r)
           /\ last' = Call("list", 0, <<>>, r)
    /\ UNCHANGED <<issued, deleted, nCreates, nDeletes, created>>
    /\ UNCHANGED thrVars

Next ==
    \/ \E nombre \in Names, edad \in Ages, nacionalidad \in Opt(Nats) :
           CrearPersona(nombre, edad, nacionalidad)
    \/ \E id \in OpIds : LeerPersona(id)
    \/ \E id \in OpIds, nombre \in Opt(Names), edad \in Opt(Ages),
          nacionalidad \in Opt(Nats) :
           ActualizarPersona(id, nombre, edad, nacionalidad)
    \/ \E id \in OpIds : EliminarPersona(id)
    \/ ListarPersonas

Spec == Init /\ [][Next]_vars

----------------------------------------------------------------------------
\* crear_persona requests in threads. The endpoints are plain def functions,
\* which the framework runs in a thread pool, and nothing locks the manager:
\* every read and every write of persona_manager is a step of its own.

Threads == 1 .. NThreads
Running == {t \in Threads : pc[t] # "idle"}

\* A request arrives and a thread enters agregar_persona.
Begin(t, nombre, edad, nacionalidad) ==
    /\ pc[t] = "idle"
    /\ Len(rets) + Cardinality(Running) < MaxCreates
    /\ args' = [args EXCEPT ![t] = <<nombre, edad, nacionalidad>>]
    /\ overlap' = (overlap \/ Running # {})
    /\ pc' = [pc EXCEPT ![t] = "L104"]
    /\ UNCHANGED <<nueva, key, tmp, rets>>
    /\ UNCHANGED storeVars
    /\ UNCHANGED histVars

\* nueva_persona = Persona(id=self.counter, ...)
L104(t) ==
    /\ pc[t] = "L104"
    /\ nueva' = [nueva EXCEPT ![t] = Persona(counter, args[t][1], args[t][2], args[t][3])]
    /\ pc' = [pc EXCEPT ![t] = "L105load"]
    /\ UNCHANGED <<args, key, tmp, rets, overlap>>
    /\ UNCHANGED storeVars
    /\ UNCHANGED histVars

\* self.personas[self.counter] = nueva_persona: the key is read ...
L105Load(t) ==
    /\ pc[t] = "L105load"
    /\ key' = [key EXCEPT ![t] = counter]
    /\ pc' = [pc EXCEPT ![t] = "L105store"]
    /\ UNCHANGED <<args, nueva, tmp, rets, overlap>>
    /\ UNCHANGED storeVars
    /\ UNCHANGED histVars

\* ... and the dict is written.
L105Store(t) ==
    /\ pc[t] = "L105store"
    /\ personas' = DictSet(personas, key[t], nueva[t])
    /\ orden' = OrdenSet(personas, orden, key[t])
    /\ pc' = [pc EXCEPT ![t] = "L106load"]
    /\ UNCHANGED <<args, nueva, key, tmp, rets, overlap>>
    /\ UNCHANGED counter
    /\ UNCHANGED histVars

\* self.counter += 1: the counter is read ...
L106Load(t) ==
    /\ pc[t] = "L106load"
    /\ tmp' = [tmp EXCEPT ![t] = counter]
    /\ pc' = [pc EXCEPT ![t] = "L106store"]
    /\ UNCHANGED <<args, nueva, key, rets, overlap>>
    /\ UNCHANGED storeVars
    /\ UNCHANGED histVars

L106Store_noinc(t) ==
    /\ pc[t] = "L106store"
    /\ counter' = tmp[t]
    /\ pc' = [pc EXCEPT ![t] = "L107"]
    /\ UNCHANGED <<args, nueva, key, tmp, rets, overlap>>
    /\ UNCHANGED <<personas, orden>>
    /\ UNCHANGED histVars

\* ... and written back, one higher.
L106Store(t) ==
    /\ pc[t] = "L106store"
    /\ counter' = tmp[t] + 1
    /\ pc' = [pc EXCEPT ![t] = "L107"]
    /\ UNCHANGED <<args, nueva, key, tmp, rets, overlap>>
    /\ UNCHANGED <<personas, orden>>
    /\ UNCHANGED histVars

\* return nueva_persona
L107(t) ==
    /\ pc[t] = "L107"
    /\ rets' = Append(rets, nueva[t])
    /\ pc' = [pc EXCEPT ![t] = "idle"]
    /\ args' = [args EXCEPT ![t] = <<>>]
    /\ nueva' = [nueva EXCEPT ![t] = None]
    /\ key' = [key EXCEPT ![t] = 0]
    /\ tmp' = [tmp EXCEPT ![t] = 0]
    /\ UNCHANGED overlap
    /\ UNCHANGED storeVars
    /\ UNCHANGED histVars

NextConc ==
    \/ \E t \in Threads, nombre \in Names, edad \in Ages, nacionalidad \in Opt(Nats) :
           Begin(t, nombre, edad, nacionalidad)
    \/ \E t \in Threads : L104(t)
    \/ \E t \in Threads : L105Load(t)
    \/ \E t \in Threads : L105Store(t)
    \/ \E t \in Threads : L106Load(t)
    \/ \E t \in Threads : L106Store(t)
    \/ \E t \in Threads : L107(t)

SpecConc == Init /\ [][NextConc]_vars

----------------------------------------------------------------------------
\* Properties of the store, one request at a time (Spec).

ByIdOps == {"get", "update", "delete"}

\* C1: every create returns a record whose id is greater than every seed id,
\* every id an earlier create returned and every id deleted so far; a deleted
\* id is never handed out again.
C1_CreateIdIsFresh ==
    [][last'.op = "create" =>
          /\ \A k \in issued \cup deleted : last'.ret.id > k
          /\ last'.ret.id \notin deleted']_vars

\* C1 witness: the second create, after delete(2), returned id 6.
C1_Witness ==
    /\ last.op = "create"
    /\ last.ret.id = 6
    /\ 2 \in deleted

\* C2: every key of personas maps to a Persona whose id is that key.
C2_KeyIsId == \A k \in DOMAIN personas : personas[k].id = k

\* C2 witness: creates, a delete and a successful update have happened.
C2_Witness ==
    /\ nCreates = MaxCreates
    /\ deleted # {}
    /\ last.op = "update"
    /\ last.status = "ok"
    /\ last.id \in DOMAIN personas \ SeedIds

\* C3: the counter starts one above the largest seed id, never decreases, is
\* always above every key that is or ever was in personas, is left alone by
\* get, update, delete and list, and is raised by exactly one by create.
C3_Counter ==
    /\ counter = Max(SeedIds) + 1
    /\ [](\A k \in everKeys : counter > k)
    /\ [][/\ counter' >= counter
          /\ last'.op = "create" => counter' = counter + 1
          /\ last'.op \in ByIdOps \cup {"list"} => counter' = counter]_vars

\* C3 witness: after two creates and a delete a later call left the counter at 7.
C3_Witness ==
    /\ counter = Max(SeedIds) + 1 + 2
    /\ Max(SeedIds) + 1 \in deleted
    /\ last.op \in {"get", "update", "list"}

\* C4: create always succeeds and returns the record it was asked for; a get
\* of an id that a create returned, with no update or delete of that id since,
\* returns that id, the supplied name and age, and the supplied nationality
\* (None when none was supplied).
C4_GetAfterCreate ==
    /\ last.op = "create" =>
          /\ last.status = "ok"
          /\ last.ret.nombre = last.args[1]
          /\ last.ret.edad = last.args[2]
          /\ last.ret.nacionalidad = last.args[3]
    /\ (last.op = "get" /\ last.id \in DOMAIN created) =>
          /\ last.status = "ok"
          /\ last.ret = created[last.id]

\* C4 witness: get(5) returns the record created with a nationality, after a
\* second create, an update of another id and a delete of another id.
C4_Witness ==
    /\ last.op = "get"
    /\ last.id = 5
    /\ 5 \in DOMAIN created
    /\ created[5].nacionalidad # None
    /\ last.ret = created[5]
    /\ nCreates = 2
    /\ 2 \in deleted
    /\ 6 \notin DOMAIN created

\* C5: a successful update overwrites exactly the fields whose argument is
\* not None and leaves the other fields, the id, every other record, the keys
\* (and their order) and the counter as they were.
C5_UpdateFrame ==
    [][(last'.op = "update" /\ last'.status = "ok") =>
          /\ last'.id \in DOMAIN personas
          /\ DOMAIN personas' = DOMAIN personas
          /\ orden' = orden
          /\ counter' = counter
          /\ \A k \in DOMAIN personas \ {last'.id} : personas'[k] = personas[k]
          /\ LET old == personas[last'.id]
                 new == personas'[last'.id]
                 a == last'.args
             IN  /\ new.id = old.id
                 /\ new.nombre = IF a[1] # None THEN a[1][1] ELSE old.nombre
                 /\ new.edad = IF a[2] # None THEN a[2][1] ELSE old.edad
                 /\ new.nacionalidad = IF a[3] # None THEN a[3] ELSE old.nacionalidad
                 /\ last'.ret = new]_vars

\* C5 witness: update(2, edad=0) changed the age of record 2 and nothing else.
C5_Witness ==
    /\ last.op = "update"
    /\ last.status = "ok"
    /\ last.id = 2
    /\ last.args = <<None, Some(0), None>>
    /\ personas[2] = Persona(2, "Maria", 0, Some("Argentina"))

\* C6: once an id has been deleted it is never a key of personas again, and
\* every later get, update and delete of it ends NotFound.
C6_DeletedStaysGone ==
    [][/\ deleted' \cap DOMAIN personas' = {}
       /\ (last'.op \in ByIdOps /\ last'.id \in deleted) => last'.status = "NotFound"]_vars

\* C6 witness: id 5 was deleted, another create followed, and a later update
\* of 5 ended NotFound.
C6_Witness ==
    /\ 5 \in deleted
    /\ nCreates = 2
    /\ 6 \in DOMAIN personas
    /\ last.op = "update"
    /\ last.id = 5
    /\ last.status = "NotFound"

\* C7 as amended: the list has as many records as there are seed records plus
\* successful creates minus successful deletes.
C7_ListLenWithSeeds ==
    last.op = "list" =>
        Len(last.ret) = Cardinality(SeedIds) + nCreates - nDeletes

\* C7 as stated: the length of the list is the number of successful creates
\* minus the number of successful deletes.
C7_ListLenAsStated ==
    last.op = "list" => Len(last.ret) = nCreates - nDeletes

\* C7 witness: a list after two creates and two deletes.
C7_Witness ==
    /\ last.op = "list"
    /\ nCreates = 2
    /\ nDeletes = 2
    /\ Len(last.ret) = 4

\* C8: a call ends "ok" or NotFound; get, update and delete end NotFound
\* exactly when the id is not a key of personas, and then change nothing;
\* create and list never fail.
C8_NotFoundOnly ==
    [][/\ last'.status \in {"ok", "NotFound"}
       /\ last'.op \in ByIdOps =>
             /\ last'.status = "NotFound" <=> last'.id \notin DOMAIN personas
             /\ last'.status = "NotFound" =>
                   /\ personas' = personas
                   /\ orden' = orden
                   /\ counter' = counter
       /\ last'.op \in {"create", "list"} => last'.status = "ok"]_vars

\* C8 witness: a delete of an id that was never issued ended NotFound.
C8_Witness ==
    /\ last.op = "delete"
    /\ last.id \notin everKeys
    /\ last.status = "NotFound"
    /\ nCreates > 0

\* C10: the seed records have a nationality, and no step takes a record that
\* has one to None: update cannot clear the field.
C10_NationalityStays ==
    /\ [](\A k \in SeedIds \cap DOMAIN personas : personas[k].nacionalidad # None)
    /\ [][\A k \in DOMAIN personas \cap DOMAIN personas' :
             personas[k].nacionalidad # None => personas'[k].nacionalidad # None]_vars

\* C10 witness: record 5 has a nationality and the last call was a successful
\* update of it with nacionalidad None.
C10_Witness ==
    /\ last.op = "update"
    /\ last.status = "ok"
    /\ last.id = 5
    /\ last.args[3] = None
    /\ personas[5].nacionalidad # None

----------------------------------------------------------------------------
\* Properties of concurrent creates (SpecConc).

DuplicateId == \E i, j \in 1 .. Len(rets) : i # j /\ rets[i].id = rets[j].id
LostRecord == Cardinality(DOMAIN personas) < Cardinality(SeedIds) + Len(rets)
KeyMismatch == \E k \in DOMAIN personas : personas[k].id # k
Broken == DuplicateId \/ LostRecord \/ KeyMismatch

\* C9: with creates in threads the sequential guarantees break (two creates
\* return one id, a created record is lost, a key maps to a record with
\* another id), and they break only when calls ran at the same time.
C9_BrokenOnlyByOverlap == Broken => overlap

\* C9 witness: both calls have returned, with the same id, and a key of
\* personas maps to a record with another id.
C9_Witness ==
    /\ Running = {}
    /\ Len(rets) = 2
    /\ DuplicateId
    /\ KeyMismatch

====
